---- MODULE Spec2Model ----
(***************************************************************************)
(* A model of src/files/utility_functions.py: stateless helpers that wrap  *)
(* a secret store, a data-lake listing, a pyodbc database connection and   *)
(* the local filesystem.  The environment (secret store, lake, filesystem) *)
(* is the state; every helper is one action that runs the whole function   *)
(* and records its outcome and the external calls it made in `call`.       *)
(***************************************************************************)
EXTENDS Integers, Sequences, FiniteSets, TLC

VARIABLES
    keyvault_name,  \* module global read from the environment (line 32)
    store,          \* the secret store: secret name -> value or NoSecret
    lake,           \* the data lake: the paths the storage account holds
    fs,             \* the local filesystem: path -> entry
    call            \* the last helper call: op, args, outcome, external events

vars == <<keyvault_name, store, lake, fs, call>>

(***************************************************************************)
(* Python values and outcomes.                                             *)
(***************************************************************************)
Str(s) == [t |-> "str", v |-> s]
Bytes(s) == [t |-> "bytes", v |-> s]
PyInt(s) == [t |-> "int", v |-> s]
PyList(s) == [t |-> "list", v |-> s]
None == [t |-> "NoneType", v |-> "None"]

\* isinstance(x, str)
IsStr(x) == x.t = "str"

Return(x) == [kind |-> "return", val |-> x]
Raise(e) == [kind |-> "raise", val |-> [t |-> "exception", v |-> e]]

Done(o, ev) == [out |-> o, ev |-> ev]

NoCall == [op |-> "none", args |-> <<>>, env |-> <<>>, out |-> Return(None), ev |-> <<>>]

(***************************************************************************)
(* Keyvault functions.                                                     *)
(***************************************************************************)
NoSecret == "<no secret>"
ExistingVaults == {"kv"}
metadata_string == "metadataConnectionString"
totesys_string == "totesysConnectionString"
SecretNames == {metadata_string, totesys_string}
SecretValues == {"A", "B"}

\* SecretClient.get_secret(name).value against vault kv: one network lookup,
\* which fails when the vault or the secret does not exist.
get_secret(kv, name, st) ==
    LET ev == << <<"get_secret", kv, name>> >> IN
    IF kv \notin ExistingVaults THEN Done(Raise("ServiceRequestError"), ev)
    ELSE IF name \notin DOMAIN st \/ st[name] = NoSecret
        THEN Done(Raise("ResourceNotFoundError"), ev)
    ELSE Done(Return(Str(st[name])), ev)

ErrorMessage(e) == "Error!  Unable to get secret, error message: " \o e \o "."

get_secret_from_keyvault(kvname, secret_name, st) ==
    IF ~IsStr(kvname) THEN Done(Raise("TypeError"), <<>>)
    ELSE IF ~IsStr(secret_name) THEN Done(Raise("TypeError"), <<>>)
    ELSE LET r == get_secret(kvname.v, secret_name.v, st) IN
         IF r.out.kind = "raise"
         THEN Done(Return(Str(ErrorMessage(r.out.val.v))), r.ev)
         ELSE Done(r.out, r.ev)

keyvault_connection_strings(kvname, st) ==
    IF ~IsStr(kvname) THEN Done(Raise("TypeError"), <<>>)
    ELSE LET m == get_secret(kvname.v, metadata_string, st) IN
         IF m.out.kind = "raise" THEN Done(Return(m.out.val), m.ev)
         ELSE LET s == get_secret(kvname.v, totesys_string, st) IN
              IF s.out.kind = "raise" THEN Done(Return(s.out.val), m.ev \o s.ev)
              ELSE Done(Return([t |-> "dict",
                                v |-> [metadata |-> m.out.val.v,
                                       totesys |-> s.out.val.v]]),
                        m.ev \o s.ev)

(***************************************************************************)
(* DataLake functions.                                                     *)
(*                                                                         *)
(* FileSystemClient.get_paths yields PathProperties objects, modelled as   *)
(* records whose fields are the object's attributes; name is the path, a   *)
(* sequence of segments.  PathProperties is a DictMixin, so Python's       *)
(* `key in path` asks whether key is one of the object's attribute names.  *)
(***************************************************************************)
PathProperties(name, is_directory) ==
    [name |-> name, is_directory |-> is_directory, owner |-> "$superuser",
     etag |-> "0x1", content_length |-> 0]

\* DictMixin.__contains__: key in self.__dict__
Contains(path, key) == key \in DOMAIN path

IsPrefix(d, n) == Len(d) < Len(n) /\ SubSeq(n, 1, Len(d)) = d

\* file_system_client.get_paths(path=directory_name): every path under the
\* directory, in the order the service reports them; fails when the
\* directory does not exist.
get_paths(directory_name, lk) ==
    LET ev == << <<"get_paths", directory_name>> >>
        exists == directory_name = <<>>
                  \/ \E i \in DOMAIN lk : /\ lk[i].name = directory_name
                                          /\ lk[i].is_directory IN
    IF ~exists THEN Done(Raise("ResourceNotFoundError"), ev)
    ELSE Done(Return(PyList(SelectSeq(lk, LAMBDA e : IsPrefix(directory_name, e.name)))), ev)

\* Line 159: the comprehension's filter.
KeepPath(path) == ~Contains(path, "_delta_log")

list_directory_contents(directory_name, lk) ==
    LET r == get_paths(directory_name, lk) IN
    IF r.out.kind = "raise" THEN r
    ELSE Done(Return(PyList(SelectSeq(r.out.val.v, KeepPath))), r.ev)

(***************************************************************************)
(* Database functions.                                                     *)
(*                                                                         *)
(* The pyodbc driver is the environment of a call.  drv says what the      *)
(* driver does in this call: the step at which it fails (fault, "none"     *)
(* when no step fails) and with which exception (kind), what fetchall      *)
(* finds after a successful execute (fetch: "rows", or "noresults" for     *)
(* ProgrammingError 'No results.  Previous SQL was not a query.'), the     *)
(* rows, cursor.rowcount, and whether the interpreter finalises (and so    *)
(* closes) a connection object when its last reference is dropped.         *)
(* rollback() and close() are taken to succeed.                            *)
(***************************************************************************)
accepted_databases == {"metadata", "totesys"}

\* Exceptions that `except pyodbc.Error` catches.
DriverErrors == {"pyodbc.ProgrammingError", "pyodbc.OperationalError"}
FaultKinds == DriverErrors \cup {"UnicodeDecodeError"}
FaultSteps == {"connect1", "connect2", "cursor", "execute", "fetchall", "commit"}

DatabaseError == "Database error!"
InfrastructureMessage == "Query executed successfully. Database infrastructure created."
RowsAffectedMessage(n) == "Query executed successfully. Rows affected: " \o ToString(n)

\* A slip: a count of 0 reported as 'no count'.
NoResultsMessage_ZeroAsNone(affected_rows) ==
    IF affected_rows <= 0 THEN InfrastructureMessage
    ELSE RowsAffectedMessage(affected_rows)

\* cursor.rowcount of a statement without a result set (lines 263-268).
NoResultsMessage(affected_rows) ==
    IF affected_rows = -1 THEN InfrastructureMessage
    ELSE RowsAffectedMessage(affected_rows)

\* The result of the try block (lines 245-271): exc is the exception it ends
\* with ("none": it returned ret), conn the connection `conn` is bound to,
\* cursor whether `cursor` was bound.
Body(exc, ret, ev, conn, cursor) ==
    [exc |-> exc, ret |-> ret, ev |-> ev, conn |-> conn, cursor |-> cursor]

\* Lines 256-271: fetchall, commit and the value returned.
FetchAndCommit(drv, ev) ==
    LET evf == Append(ev, <<"fetchall", "conn2">>)
        evc == Append(evf, <<"commit", "conn2">>) IN
    IF drv.fault = "fetchall" THEN Body(drv.kind, None, evf, "conn2", TRUE)
    ELSE IF drv.fault = "commit" THEN Body(drv.kind, None, evc, "conn2", TRUE)
    ELSE IF drv.fetch = "rows"
        THEN Body("none", PyList(drv.rows), evc, "conn2", TRUE)
    ELSE Body("none", Str(NoResultsMessage(drv.rowcount)), evc, "conn2", TRUE)

\* Lines 245-271, entered with conn bound to the connection of line 242.
TryBlock(query, drv, ev) ==
    LET ev2 == Append(ev, <<"connect", "conn2">>)
        \* rebinding conn drops the only reference to the first connection
        ev2d == IF drv.dealloc THEN Append(ev2, <<"dealloc", "conn1">>) ELSE ev2
        ev3 == Append(ev2d, <<"cursor", "conn2">>)
        ev4 == Append(ev3, <<"execute", query.v>>) IN
    IF drv.fault = "connect2"
        THEN Body(drv.kind, None, Append(ev, <<"connect_failed", "conn2">>), "conn1", FALSE)
    ELSE IF drv.fault = "cursor" THEN Body(drv.kind, None, ev2d, "conn2", FALSE)
    ELSE IF drv.fault = "execute" THEN Body(drv.kind, None, ev4, "conn2", TRUE)
    ELSE FetchAndCommit(drv, ev4)

\* Lines 273-277: except pyodbc.Error.
ExceptClause(b) ==
    IF b.exc \in DriverErrors
    THEN Body("none", Str(DatabaseError), Append(b.ev, <<"rollback", b.conn>>),
              b.conn, b.cursor)
    ELSE b

\* Lines 279-284: finally.  Reading the unbound local `cursor` raises
\* UnboundLocalError, which replaces the pending return or exception.
FinallyClause(b) ==
    IF ~b.cursor THEN Done(Raise("UnboundLocalError"), b.ev)
    ELSE LET ev == b.ev \o << <<"cursor.close", b.conn>>, <<"close", b.conn>> >> IN
         IF b.exc = "none" THEN Done(Return(b.ret), ev)
         ELSE Done(Raise(b.exc), ev)

\* A slip: the alias is checked only after the connection string was fetched.
query_database_LateAliasCheck(database_name, query, kvname, st, drv) ==
    LET kv == keyvault_connection_strings(kvname, st) IN
    IF ~(IsStr(database_name) /\ database_name.v \in accepted_databases)
        THEN Done(Raise("ValueError"), kv.ev)
    ELSE IF ~IsStr(database_name) \/ ~IsStr(query)
        THEN Done(Raise("TypeError"), kv.ev)
    ELSE IF kv.out.kind = "raise" THEN kv
    ELSE IF kv.out.val.t # "dict" THEN Done(Raise("TypeError"), kv.ev)
    ELSE IF drv.fault = "connect1"
        THEN Done(Raise(drv.kind), Append(kv.ev, <<"connect_failed", "conn1">>))
    ELSE FinallyClause(ExceptClause(
             TryBlock(query, drv, Append(kv.ev, <<"connect", "conn1">>))))

query_database(database_name, query, kvname, st, drv) ==
    IF ~(IsStr(database_name) /\ database_name.v \in accepted_databases)
        THEN Done(Raise("ValueError"), <<>>)
    ELSE IF ~IsStr(database_name) \/ ~IsStr(query)
        THEN Done(Raise("TypeError"), <<>>)
    ELSE LET kv == keyvault_connection_strings(kvname, st) IN
         IF kv.out.kind = "raise" THEN kv
         \* subscripting the exception object that was returned
         ELSE IF kv.out.val.t # "dict" THEN Done(Raise("TypeError"), kv.ev)
         ELSE IF drv.fault = "connect1"
             THEN Done(Raise(drv.kind), Append(kv.ev, <<"connect_failed", "conn1">>))
         ELSE FinallyClause(ExceptClause(
                  TryBlock(query, drv, Append(kv.ev, <<"connect", "conn1">>))))

\* The connections a call's events leave open.
Opened(ev) == {ev[i][2] : i \in {j \in DOMAIN ev : ev[j][1] = "connect"}}
Closed(ev) == {ev[i][2] : i \in {j \in DOMAIN ev : ev[j][1] \in {"close", "dealloc"}}}
OpenConnections(ev) == Opened(ev) \ Closed(ev)
Count(ev, what) == Cardinality({i \in DOMAIN ev : ev[i][1] = what})

(***************************************************************************)
(* The local filesystem and the csv module.                                *)
(*                                                                         *)
(* A file's content is the sequence of its characters, each a one-         *)
(* character string.  fs maps a path to its entry; a path outside DOMAIN   *)
(* fs does not exist.                                                      *)
(***************************************************************************)
Absent == [kind |-> "absent", data |-> <<>>]
Dir == [kind |-> "dir", data |-> <<>>]
File(text) == [kind |-> "file", data |-> text]

Entry(f, p) == IF p \in DOMAIN f THEN f[p] ELSE Absent

\* The directory that holds a path ("" for the working directory, which exists).
Parent(p) ==
    CASE p = "d/a" -> "d"
      [] p = "d/c.csv" -> "d"
      [] p = "d/b" -> "d"
      [] p = "d/c.txt" -> "d"
      [] p = "d/a/n" -> "d/a"
      [] p = "d/a/m.txt" -> "d/a"
      [] OTHER -> ""

ParentIsDir(f, p) == Parent(p) = "" \/ Entry(f, Parent(p)).kind = "dir"

\* A str read from a file: its characters.
Text(chars) == [t |-> "str", chars |-> chars]

FsDone(o, ev, f) == [out |-> o, ev |-> ev, fs |-> f]

\* The filesystem with entry e at path p.
Put(f, p, e) == [q \in DOMAIN f \cup {p} |-> IF q = p THEN e ELSE f[q]]

\* os.stat as os.path.isfile and os.path.exists use it (they turn OSError
\* into False): a str or bytes path is looked up, an int is taken for a file
\* descriptor and probed (here: no descriptor of a regular file), anything
\* else is a TypeError raised before any system call.
stat(path, f) ==
    IF path.t \in {"str", "bytes"}
        THEN [exc |-> "none", kind |-> Entry(f, path.v).kind, ev |-> << <<"stat", path.v>> >>]
    ELSE IF path.t = "int"
        THEN [exc |-> "none", kind |-> "absent", ev |-> << <<"fstat", path.v>> >>]
    ELSE [exc |-> "TypeError", kind |-> "absent", ev |-> <<>>]

\* open(path) for reading: the content, or the error.
open_r(path, f) ==
    LET e == Entry(f, path.v) IN
    IF e.kind = "file" THEN [exc |-> "none", data |-> e.data]
    ELSE IF e.kind = "dir" THEN [exc |-> "IsADirectoryError", data |-> <<>>]
    ELSE [exc |-> "FileNotFoundError", data |-> <<>>]

\* str.strip(): leading and trailing whitespace removed.
Whitespace == {" ", "\t", "\n", "\r"}

RECURSIVE lstrip(_)
lstrip(s) == IF s # <<>> /\ Head(s) \in Whitespace THEN lstrip(Tail(s)) ELSE s

RECURSIVE rstrip(_)
rstrip(s) ==
    IF s # <<>> /\ s[Len(s)] \in Whitespace THEN rstrip(SubSeq(s, 1, Len(s) - 1)) ELSE s

strip(s) == rstrip(lstrip(s))

StripRow(row) == [i \in DOMAIN row |-> strip(row[i])]

(* csv.writer, excel dialect: delimiter ',', quotechar '"', doublequote,     *)
(* QUOTE_MINIMAL, lineterminator '\r\n'.                                     *)
NeedsQuote(field) == \E i \in DOMAIN field : field[i] \in {",", "\"", "\r", "\n"}

RECURSIVE DoubleQuotes(_)
DoubleQuotes(field) ==
    IF field = <<>> THEN <<>>
    ELSE (IF Head(field) = "\"" THEN <<"\"", "\"">> ELSE <<Head(field)>>)
             \o DoubleQuotes(Tail(field))

WriteField(field) ==
    IF NeedsQuote(field) THEN <<"\"">> \o DoubleQuotes(field) \o <<"\"">> ELSE field

RECURSIVE JoinFields(_)
JoinFields(row) ==
    IF row = <<>> THEN <<>>
    ELSE IF Len(row) = 1 THEN WriteField(row[1])
    ELSE WriteField(Head(row)) \o <<",">> \o JoinFields(Tail(row))

\* writer.writerow: a row of one empty field is written as "" so that it
\* differs from a row of no fields.
writerow(row) ==
    (IF row = << <<>> >> THEN <<"\"", "\"">> ELSE JoinFields(row)) \o <<"\r", "\n">>

RECURSIVE writerows(_)
writerows(rows) ==
    IF rows = <<>> THEN <<>> ELSE writerow(Head(rows)) \o writerows(Tail(rows))

(* csv.reader over a file opened with newline='': the parser's states, run   *)
(* over the characters.  Outside quotes '\r', '\n' or '\r\n' ends the        *)
(* record; inside quotes every character belongs to the field.  A parser     *)
(* is its state st, the field and row read of the current record, the rows   *)
(* read, and cr: the last character was a '\r' that ended a record.          *)
Parser(st, field, row, rows, cr) ==
    [st |-> st, field |-> field, row |-> row, rows |-> rows, cr |-> cr]

\* The record in progress ends: a line of no characters is a row of no fields.
EndRecord(p, cr) ==
    Parser("START_RECORD", <<>>, <<>>,
           Append(p.rows, IF p.st = "START_RECORD" THEN <<>> ELSE Append(p.row, p.field)),
           cr)

\* parse_process_char: one character.
ProcessChar(p, c) ==
    IF p.st = "IN_QUOTED_FIELD" THEN
        IF c = "\"" THEN Parser("QUOTE_IN_QUOTED_FIELD", p.field, p.row, p.rows, FALSE)
        ELSE Parser(p.st, Append(p.field, c), p.row, p.rows, FALSE)
    ELSE IF c = "\n" /\ p.cr THEN Parser(p.st, p.field, p.row, p.rows, FALSE)
    ELSE IF c \in {"\r", "\n"} THEN EndRecord(p, c = "\r")
    ELSE IF p.st \in {"START_RECORD", "START_FIELD"} THEN
        IF c = "\"" THEN Parser("IN_QUOTED_FIELD", <<>>, p.row, p.rows, FALSE)
        ELSE IF c = "," THEN Parser("START_FIELD", <<>>, Append(p.row, <<>>), p.rows, FALSE)
        ELSE Parser("IN_FIELD", <<c>>, p.row, p.rows, FALSE)
    ELSE IF p.st = "IN_FIELD" THEN
        IF c = "," THEN Parser("START_FIELD", <<>>, Append(p.row, p.field), p.rows, FALSE)
        ELSE Parser(p.st, Append(p.field, c), p.row, p.rows, FALSE)
    ELSE \* QUOTE_IN_QUOTED_FIELD
        IF c = "\"" THEN Parser("IN_QUOTED_FIELD", Append(p.field, c), p.row, p.rows, FALSE)
        ELSE IF c = "," THEN Parser("START_FIELD", <<>>, Append(p.row, p.field), p.rows, FALSE)
        ELSE Parser("IN_FIELD", Append(p.field, c), p.row, p.rows, FALSE)

\* The parser after the characters text[lo..hi], in order.
RECURSIVE ProcessChars(_, _, _, _)
ProcessChars(p, text, lo, hi) ==
    IF lo > hi THEN p
    ELSE IF lo = hi THEN ProcessChar(p, text[lo])
    ELSE LET mid == (lo + hi) \div 2
             q == ProcessChars(p, text, lo, mid) IN
         \* q is inspected, and so evaluated, before the second half is entered
         IF q.st = "" THEN q ELSE ProcessChars(q, text, mid + 1, hi)

\* Every row of the file; at the end of the file a record in progress is
\* returned as it stands.
csv_reader(text) ==
    LET p == ProcessChars(Parser("START_RECORD", <<>>, <<>>, <<>>, FALSE), text, 1, Len(text)) IN
    IF p.st = "START_RECORD" THEN p.rows ELSE Append(p.rows, Append(p.row, p.field))

(***************************************************************************)
(* Filesystem and contract file helpers.                                   *)
(***************************************************************************)
\* Lines 407-409, each column name as its characters.
header_entity ==
    << <<"n", "a", "m", "e">>,
       <<"d", "e", "s", "c", "r", "i", "p", "t", "i", "o", "n">>,
       <<"c", "o", "n", "n", "e", "c", "t", "i", "o", "n", "S", "t", "r", "i", "n", "g">>,
       <<"s", "o", "u", "r", "c", "e", "Q", "u", "e", "r", "y">>,
       <<"s", "o", "r", "t", "O", "r", "d", "e", "r">>,
       <<"c", "o", "l", "u", "m", "n", "N", "a", "m", "e">>,
       <<"d", "a", "t", "a", "T", "y", "p", "e">>,
       <<"r", "e", "q", "u", "i", "r", "e", "d">>,
       <<"p", "r", "i", "m", "a", "r", "y", "_", "k", "e", "y">> >>

\* Lines 412-413.
header_source ==
    << <<"n", "a", "m", "e">>,
       <<"d", "e", "s", "c", "r", "i", "p", "t", "i", "o", "n">>,
       <<"s", "o", "u", "r", "c", "e", "T", "y", "p", "e">>,
       <<"k", "e", "y", "V", "a", "u", "l", "t", "Q", "u", "e", "r", "y">>,
       <<"e", "n", "t", "i", "t", "y", "N", "a", "m", "e", "s">>,
       <<"n", "o", "t", "e", "b", "o", "o", "k", "s">> >>

\* Lines 430-441: the rows after the header, every cell stripped.
StripData(rows) == [i \in 1..(Len(rows) - 1) |-> StripRow(rows[i + 1])]

\* A slip: the header is compared as read, without stripping its fields.
open_csv_HeaderNotStripped(path, f) ==
    LET s == stat(path, f) IN
    IF s.exc # "none" THEN FsDone(Raise(s.exc), s.ev, f)
    ELSE IF s.kind # "file" THEN FsDone(Raise("FileNotFoundError"), s.ev, f)
    ELSE LET ev1 == Append(s.ev, <<"getsize", path.v>>)
             ev2 == Append(ev1, <<"open", path.v>>)
             rows == csv_reader(Entry(f, path.v).data) IN
         IF Len(Entry(f, path.v).data) = 0 THEN FsDone(Raise("ValueError"), ev1, f)
         ELSE IF rows = <<>> THEN FsDone(Raise("StopIteration"), ev2, f)
         ELSE IF rows[1] # header_entity /\ rows[1] # header_source
              THEN FsDone(Raise("ValueError"), ev2, f)
              ELSE FsDone(Return(PyList(StripData(rows))), ev2, f)

open_csv(path, f) ==
    LET s == stat(path, f) IN
    IF s.exc # "none" THEN FsDone(Raise(s.exc), s.ev, f)
    ELSE IF s.kind # "file" THEN FsDone(Raise("FileNotFoundError"), s.ev, f)
    ELSE LET ev1 == Append(s.ev, <<"getsize", path.v>>)
             ev2 == Append(ev1, <<"open", path.v>>)
             rows == csv_reader(Entry(f, path.v).data) IN
         IF Len(Entry(f, path.v).data) = 0 THEN FsDone(Raise("ValueError"), ev1, f)
         ELSE IF rows = <<>> THEN FsDone(Raise("StopIteration"), ev2, f)
         ELSE LET header == StripRow(rows[1]) IN
              IF header # header_entity /\ header # header_source
              THEN FsDone(Raise("ValueError"), ev2, f)
              ELSE FsDone(Return(PyList(StripData(rows))), ev2, f)

\* A slip: os.remove without the isfile test.
delete_file_Unchecked(path, f) ==
    LET s == stat(path, f) IN
    IF s.exc # "none" THEN FsDone(Raise(s.exc), s.ev, f)
    ELSE IF s.kind = "file"
        THEN FsDone(Return(None), << <<"remove", path.v>> >>, Put(f, path.v, Absent))
    ELSE IF s.kind = "dir"
        THEN FsDone(Raise("IsADirectoryError"), << <<"remove", path.v>> >>, f)
    ELSE FsDone(Raise("FileNotFoundError"), << <<"remove", path.v>> >>, f)

delete_file(path, f) ==
    LET s == stat(path, f) IN
    IF s.exc # "none" THEN FsDone(Raise(s.exc), s.ev, f)
    ELSE IF s.kind = "file"
        THEN FsDone(Return(None), Append(s.ev, <<"remove", path.v>>),
                    Put(f, path.v, Absent))
    ELSE FsDone(Return(None), s.ev, f)

WrittenMessage == "File written successfully."

\* A slip: the file is opened for appending, which keeps what it held.
write_to_csv_Append(path, data, header, f) ==
    LET hdr == IF header = None THEN PyList(<<>>) ELSE header IN
    IF ~IsStr(path) THEN FsDone(Raise("TypeError"), <<>>, f)
    ELSE IF data.t # "list" THEN FsDone(Raise("TypeError"), <<>>, f)
    ELSE IF hdr.t # "list" THEN FsDone(Raise("TypeError"), <<>>, f)
    ELSE LET ev == << <<"open", path.v>> >> IN
         IF Entry(f, path.v).kind = "dir" THEN FsDone(Raise("IsADirectoryError"), ev, f)
         ELSE IF ~ParentIsDir(f, path.v)
             THEN FsDone(Raise("FileNotFoundError"), ev, f)
         ELSE LET text == Entry(f, path.v).data
                              \o (IF hdr.v # <<>> THEN writerow(hdr.v) ELSE <<>>)
                              \o writerows(data.v) IN
              FsDone(Return(Str(WrittenMessage)), ev, Put(f, path.v, File(text)))

write_to_csv(path, data, header, f) ==
    LET hdr == IF header = None THEN PyList(<<>>) ELSE header IN
    IF ~IsStr(path) THEN FsDone(Raise("TypeError"), <<>>, f)
    ELSE IF data.t # "list" THEN FsDone(Raise("TypeError"), <<>>, f)
    ELSE IF hdr.t # "list" THEN FsDone(Raise("TypeError"), <<>>, f)
    ELSE LET ev == << <<"open", path.v>> >> IN
         IF Entry(f, path.v).kind = "dir" THEN FsDone(Raise("IsADirectoryError"), ev, f)
         ELSE IF ~ParentIsDir(f, path.v)
             THEN FsDone(Raise("FileNotFoundError"), ev, f)
         ELSE LET text == (IF hdr.v # <<>> THEN writerow(hdr.v) ELSE <<>>)
                              \o writerows(data.v) IN
              FsDone(Return(Str(WrittenMessage)), ev, Put(f, path.v, File(text)))

read_sql(path, f) ==
    IF ~IsStr(path) THEN FsDone(Raise("TypeError"), <<>>, f)
    ELSE LET s == stat(path, f) IN
         IF s.kind = "absent" THEN FsDone(Raise("FileNotFoundError"), s.ev, f)
         ELSE LET o == open_r(path, f)
                  ev == Append(s.ev, <<"open", path.v>>) IN
              IF o.exc # "none" THEN FsDone(Raise(o.exc), ev, f)
              ELSE FsDone(Return(Text(o.data)), ev, f)

\* json.load is left uninterpreted: the value is the parse of the content.
load_json(path, f) ==
    IF ~IsStr(path) THEN FsDone(Raise("TypeError"), <<>>, f)
    ELSE LET s == stat(path, f) IN
         IF s.kind # "file" THEN FsDone(Raise("FileNotFoundError"), s.ev, f)
         ELSE FsDone(Return([t |-> "json", chars |-> Entry(f, path.v).data]),
                     Append(s.ev, <<"open", path.v>>), f)

SourceSystemPath(source_system) ==
    "./src/contracts/" \o source_system \o "/_sourceSystem.json"

return_source_system_path(source_system, f) ==
    IF ~IsStr(source_system) THEN FsDone(Raise("TypeError"), <<>>, f)
    ELSE LET path == Str(SourceSystemPath(source_system.v))
             s == stat(path, f) IN
         IF s.kind # "file" THEN FsDone(Raise("FileNotFoundError"), s.ev, f)
         ELSE FsDone(Return(path), s.ev, f)

\* The last component of a path.
basename(p) ==
    CASE p = "d/a" -> "a"
      [] p = "d/c.csv" -> "c.csv"
      [] p = "d/b" -> "b"
      [] p = "d/c.txt" -> "c.txt"
      [] p = "d/a/n" -> "n"
      [] p = "d/a/m.txt" -> "m.txt"
      [] OTHER -> p

\* os.path.join of a directory path and a name.
join(path, name) == path \o "/" \o name

\* os.listdir: the names of the entries the directory holds, in the order the
\* system enumerates them (order lists every name; the order is the
\* system's choice).
listdir(path, f, order) ==
    LET held == {basename(q) : q \in {q \in DOMAIN f : /\ Parent(q) = path
                                                       /\ f[q].kind # "absent"}} IN
    SelectSeq(order, LAMBDA n : n \in held)

\* A slip: every entry is returned, the os.path.isdir filter left out.
list_folders_Unfiltered(path, f, order) ==
    IF ~IsStr(path) THEN FsDone(Raise("TypeError"), <<>>, f)
    ELSE LET s == stat(path, f) IN
         IF s.kind = "absent" THEN FsDone(Raise("FileNotFoundError"), s.ev, f)
         ELSE IF s.kind # "dir" THEN FsDone(Raise("FileNotFoundError"), s.ev \o s.ev, f)
         ELSE LET names == listdir(path.v, f, order) IN
              FsDone(Return(PyList(names)),
                     s.ev \o s.ev \o << <<"listdir", path.v>> >>, f)

list_folders(path, f, order) ==
    IF ~IsStr(path) THEN FsDone(Raise("TypeError"), <<>>, f)
    ELSE LET s == stat(path, f) IN
         IF s.kind = "absent" THEN FsDone(Raise("FileNotFoundError"), s.ev, f)
         ELSE IF s.kind # "dir" THEN FsDone(Raise("FileNotFoundError"), s.ev \o s.ev, f)
         ELSE LET names == listdir(path.v, f, order)
                  probes == [i \in 1..Len(names) |-> <<"stat", join(path.v, names[i])>>]
                  list_of_folders ==
                      SelectSeq(names, LAMBDA folder :
                                           Entry(f, join(path.v, folder)).kind = "dir") IN
              FsDone(Return(PyList(list_of_folders)),
                     s.ev \o s.ev \o << <<"listdir", path.v>> >> \o probes, f)

(***************************************************************************)
(* Inputs.                                                                 *)
(***************************************************************************)
NameArgs == {Str("kv"), Str("nokv"), None, PyInt("5")}
SecretArgs == {Str(n) : n \in SecretNames} \cup {Str("absent"), None}

DatabaseNameArgs == {Str("metadata"), Str("totesys"), Str("sales"), None, PyInt("5")}
QueryArgs == {Str("SELECT 1"), None}
MaxRows == 2
RowSets == {r \in UNION {[1..n -> {"r1", "r2"}] : n \in 0..MaxRows} :
               \A i \in DOMAIN r : i > 1 => r[i - 1] # r[i]}
RowCounts == {-1, 0, 1, 2}
NoFault == [fault : {"none"}, kind : {"none"}, fetch : {"rows"}, rows : RowSets,
            rowcount : {-1}, dealloc : BOOLEAN]
           \cup [fault : {"none"}, kind : {"none"}, fetch : {"noresults"}, rows : {<<>>},
                 rowcount : RowCounts, dealloc : BOOLEAN]
Faults == {d \in [fault : FaultSteps, kind : FaultKinds, fetch : {"rows", "noresults"},
                 rows : {<<>>}, rowcount : {1}, dealloc : BOOLEAN] :
              d.fetch = "noresults" => d.fault = "commit"}
Drivers == NoFault \cup Faults

\* The data lake: a table directory with its transaction log, and a sibling.
LakeEntries == {PathProperties(<<"t">>, TRUE),
                PathProperties(<<"t", "part-0.parquet">>, FALSE),
                PathProperties(<<"t", "_delta_log">>, TRUE),
                PathProperties(<<"t", "_delta_log", "0.json">>, FALSE),
                PathProperties(<<"u">>, TRUE),
                PathProperties(<<"u", "x.csv">>, FALSE)}
MaxPaths == 3
\* A listing: distinct entries, a path only with the directory that holds it.
Lakes == {l \in UNION {[1..n -> LakeEntries] : n \in 0..MaxPaths} :
             /\ \A i, j \in DOMAIN l : i < j => l[i] # l[j]
             /\ \A i \in DOMAIN l : Len(l[i].name) > 1 =>
                    \E j \in DOMAIN l : /\ j < i
                                        /\ l[j].is_directory
                                        /\ l[j].name = SubSeq(l[i].name, 1, Len(l[i].name) - 1)}
DirectoryArgs == {<<>>, <<"t">>, <<"u">>, <<"t", "_delta_log">>, <<"v">>}

\* Filesystem paths and the values passed as paths.
ContractFile == "./src/contracts/AdventureWorks/_sourceSystem.json"
PathArgs == {Str("f.csv"), Str("d"), Str("d/c.csv"), Str("nope"),
             Bytes("f.csv"), PyInt("3"), None}
\* The paths given to list_folders, and the orders a directory is enumerated in.
FolderArgs == PathArgs \cup {Str("d/a"), Str("d/b"), Str("d/c.txt"), Str("d/a/n"), Str("")}
EntryNames == <<"a", "b", "c.csv", "c.txt", "m.txt", "n">>
ListingOrders == {EntryNames, [i \in DOMAIN EntryNames |-> EntryNames[Len(EntryNames) + 1 - i]]}
SourceSystemArgs == {Str("AdventureWorks"), Str("Nope"), None}

\* Rows of string cells: plain, with surrounding whitespace, with the
\* characters the writer quotes, of one empty cell, and of no cell.
RowPlain == << <<"a">>, <<"b", "c">> >>
RowSpaces == << <<" ", "a">>, <<"b", " ">> >>
RowSpecial == << <<"x", ",", "y">>, <<"q", "\"">>, <<"l", "\n", "m">> >>
RowEmptyCell == << <<>> >>
RowSamples == {RowSpaces, RowSpecial, RowEmptyCell}
MaxData == 2
\* The data written: up to MaxData sample rows, and two with a row of no cell.
Datas == UNION {[1..n -> RowSamples] : n \in 0..MaxData}
             \cup {<< <<>> >>, << RowPlain, <<>>, RowPlain >>}

\* A line of a hand-written file: the cells as they are, comma separated.
RECURSIVE RawLine(_)
RawLine(row) ==
    IF row = <<>> THEN <<>>
    ELSE IF Len(row) = 1 THEN row[1]
    ELSE Head(row) \o <<",">> \o RawLine(Tail(row))

Padded(row) == [i \in DOMAIN row |-> <<" ">> \o row[i] \o <<" ", "\t">>]
BadHeader == << <<"i", "d">>, <<"n", "a", "m", "e">> >>
Swapped(row) == [i \in DOMAIN row |-> IF i = 1 THEN row[2] ELSE IF i = 2 THEN row[1] ELSE row[i]]

\* Files as the helpers may find them.
FileEmpty == <<>>
FileHeaderOnly == RawLine(header_entity)
FilePadded == RawLine(Padded(header_source)) \o <<"\n">>
                  \o RawLine(Padded(RowPlain)) \o <<"\n", "\n">>
                  \o <<"\"", "x", "\n", "y", "\"", ",", "z">>
FileBadHeader == RawLine(BadHeader) \o <<"\r", "\n">> \o RawLine(RowPlain) \o <<"\r", "\n">>
FileBlankFirst == <<"\n">> \o RawLine(header_source) \o <<"\n">>
FileSwapped == RawLine(Swapped(header_source)) \o <<"\n">> \o RawLine(RowPlain) \o <<"\n">>
FileShort == RawLine(SubSeq(header_source, 1, 5)) \o <<"\n">>
FileEntity == RawLine(header_entity) \o <<"\r", "\n">> \o RawLine(RowSpaces) \o <<"\r", "\n">>
                  \o RawLine(RowPlain)
FileSamples == {FileEmpty, FileHeaderOnly, FilePadded, FileBadHeader, FileBlankFirst,
                FileSwapped, FileShort, FileEntity}
FileJson == <<"{", "}">>

\* Arguments of write_to_csv: every data with no header or a recognized one,
\* and the calls that fail or write an unrecognized header.
WriteArgs ==
    [path : {Str("f.csv")}, data : {PyList(d) : d \in Datas},
     header : {None, PyList(header_entity), PyList(header_source)}]
    \cup [path : {None, Str("d"), Str("d/c.csv")}, data : {PyList(<< RowPlain >>)},
          header : {PyList(header_source)}]
    \cup [path : {Str("f.csv")}, data : {None, PyList(<< RowPlain >>)},
          header : {Str("name"), PyList(BadHeader), PyList(<<>>)}]

\* The few writes the general filesystem model makes.
FewWriteArgs ==
    [path : {Str("f.csv"), Str("d/c.csv"), Str("d"), None},
     data : {PyList(<< RowSpaces >>), None}, header : {None, PyList(header_source)}]

(***************************************************************************)
(* Actions.                                                                *)
(***************************************************************************)
GetSecretFromKeyvault ==
    \E k \in NameArgs, s \in SecretArgs :
        LET r == get_secret_from_keyvault(k, s, store) IN
        /\ call' = [op |-> "get_secret_from_keyvault", args |-> <<k, s>>,
                    env |-> <<>>, out |-> r.out, ev |-> r.ev]
        /\ UNCHANGED <<keyvault_name, store, lake, fs>>

KeyvaultConnectionStrings ==
    \E k \in NameArgs :
        LET r == keyvault_connection_strings(k, store) IN
        /\ call' = [op |-> "keyvault_connection_strings", args |-> <<k>>,
                    env |-> <<>>, out |-> r.out, ev |-> r.ev]
        /\ UNCHANGED <<keyvault_name, store, lake, fs>>

QueryDatabase ==
    \E d \in DatabaseNameArgs, q \in QueryArgs, drv \in Drivers :
        LET r == query_database(d, q, keyvault_name, store, drv) IN
        /\ call' = [op |-> "query_database", args |-> <<d, q>>,
                    env |-> <<drv>>, out |-> r.out, ev |-> r.ev]
        /\ UNCHANGED <<keyvault_name, store, lake, fs>>

ListDirectoryContents ==
    \E d \in DirectoryArgs :
        LET r == list_directory_contents(d, lake) IN
        /\ call' = [op |-> "list_directory_contents", args |-> <<d>>,
                    env |-> <<>>, out |-> r.out, ev |-> r.ev]
        /\ UNCHANGED <<keyvault_name, store, lake, fs>>

FsCall(op, args, r) ==
    /\ call' = [op |-> op, args |-> args, env |-> <<>>, out |-> r.out, ev |-> r.ev]
    /\ fs' = r.fs
    /\ UNCHANGED <<keyvault_name, store, lake>>

OpenCsv ==
    \E p \in PathArgs : FsCall("open_csv", <<p>>, open_csv(p, fs))

DeleteFile ==
    \E p \in PathArgs : FsCall("delete_file", <<p>>, delete_file(p, fs))

WriteToCsv(argset) ==
    \E a \in argset :
        FsCall("write_to_csv", <<a.path, a.data, a.header>>,
               write_to_csv(a.path, a.data, a.header, fs))

ReadSql ==
    \E p \in PathArgs : FsCall("read_sql", <<p>>, read_sql(p, fs))

LoadJson ==
    \E p \in PathArgs \cup {Str(ContractFile)} :
        FsCall("load_json", <<p>>, load_json(p, fs))

ListFolders ==
    \E p \in FolderArgs, order \in ListingOrders :
        LET r == list_folders(p, fs, order) IN
        /\ call' = [op |-> "list_folders", args |-> <<p>>, env |-> <<order>>,
                    out |-> r.out, ev |-> r.ev]
        /\ fs' = r.fs
        /\ UNCHANGED <<keyvault_name, store, lake>>

ReturnSourceSystemPath ==
    \E n \in SourceSystemArgs :
        FsCall("return_source_system_path", <<n>>, return_source_system_path(n, fs))

Init ==
    /\ keyvault_name \in {Str("kv"), Str("nokv"), None}
    /\ store \in [SecretNames -> SecretValues \cup {NoSecret}]
    /\ lake = <<>>
    /\ fs = <<>>
    /\ call = NoCall

Next ==
    \/ GetSecretFromKeyvault
    \/ KeyvaultConnectionStrings
    \/ QueryDatabase

Spec == Init /\ [][Next]_vars

\* The data lake helpers, over every listing the lake may hold.
InitLake ==
    /\ keyvault_name = Str("kv")
    /\ store = [n \in SecretNames |-> "A"]
    /\ lake \in Lakes
    /\ fs = <<>>
    /\ call = NoCall

NextLake == ListDirectoryContents

SpecLake == InitLake /\ [][NextLake]_vars

\* The filesystem helpers, over the filesystems they may find.
InitFs ==
    /\ keyvault_name = Str("kv")
    /\ store = [n \in SecretNames |-> "A"]
    /\ lake = <<>>
    /\ \E a \in {Absent, Dir},
          c \in {Absent, File(FileEntity)},
          x \in {Absent, File(FileEmpty), File(FilePadded), File(FileBadHeader)},
          j \in {Absent, File(FileJson)} :
          fs = [p \in {"d", "d/a", "d/c.csv", "f.csv", ContractFile} |->
                   CASE p = "d" -> Dir
                     [] p = "d/a" -> a
                     [] p = "d/c.csv" -> c
                     [] p = "f.csv" -> x
                     [] OTHER -> j]
    /\ call = NoCall

NextFs ==
    \/ OpenCsv
    \/ DeleteFile
    \/ WriteToCsv(FewWriteArgs)
    \/ ReadSql
    \/ LoadJson
    \/ ReturnSourceSystemPath
    \/ ListFolders
    \/ GetSecretFromKeyvault
    \/ KeyvaultConnectionStrings

SpecFs == InitFs /\ [][NextFs]_vars

\* The csv helpers on one file, over every data written to it.
InitCsv ==
    /\ keyvault_name = Str("kv")
    /\ store = [n \in SecretNames |-> "A"]
    /\ lake = <<>>
    /\ \E x \in {Absent} \cup {File(t) : t \in FileSamples} :
          fs = [p \in {"d", "d/a", "d/c.csv", "f.csv", ContractFile} |->
                   CASE p = "d" -> Dir
                     [] p = "f.csv" -> x
                     [] OTHER -> Absent]
    /\ call = NoCall

NextCsv ==
    \/ WriteToCsv(WriteArgs)
    \/ OpenCsv
    \/ DeleteFile

SpecCsv == InitCsv /\ [][NextCsv]_vars

\* list_folders over the directory trees it may find: d may be absent, a
\* file or a directory; an entry exists only inside a directory.
Trees ==
    {t \in [{"d", "d/a", "d/b", "d/c.txt", "d/c.csv", "d/a/n", "d/a/m.txt", "f.csv"} ->
                {Absent, Dir, File(<<>>)}] :
        /\ \A p \in DOMAIN t : t[p].kind # "absent" => ParentIsDir(t, p)
        /\ t["d/b"].kind # "file"
        /\ t["d/c.csv"].kind # "dir"
        /\ t["d/a/n"].kind # "file"
        /\ t["d/a/m.txt"].kind # "dir"
        /\ t["f.csv"].kind = "file"}

InitTree ==
    /\ keyvault_name = Str("kv")
    /\ store = [n \in SecretNames |-> "A"]
    /\ lake = <<>>
    /\ fs \in Trees
    /\ call = NoCall

NextTree ==
    \/ ListFolders
    \/ DeleteFile

SpecTree == InitTree /\ [][NextTree]_vars

(***************************************************************************)
(* Claims about query_database.                                            *)
(***************************************************************************)
IsQuery == call.op = "query_database"
Drv == call.env[1]
AcceptedAlias(x) == IsStr(x) /\ (x.v = "metadata" \/ x.v = "totesys")
\* The call got as far as the driver: it tried to connect.
ReachedDriver == \E i \in DOMAIN call.ev : call.ev[i][1] \in {"connect", "connect_failed"}
Executed == \E i \in DOMAIN call.ev : call.ev[i][1] = "execute"

\* C1: a query_database call that opened a connection has, when it ends
\* (returning or raising), closed every connection it opened and every cursor
\* it created.
C1_ConnectionsReleased ==
    (IsQuery /\ Opened(call.ev) # {}) =>
        /\ OpenConnections(call.ev) = {}
        /\ Count(call.ev, "cursor") = Count(call.ev, "cursor.close")

\* C2: query_database with a database_name other than 'metadata' and
\* 'totesys' raises, and has made no secret-store lookup and opened no
\* connection: it made no external call at all.
C2_RejectedAliasBeforeAnyCall ==
    (IsQuery /\ ~AcceptedAlias(call.args[1])) =>
        /\ call.out.kind = "raise"
        /\ call.ev = <<>>

C2_Witness ==
    /\ IsQuery
    /\ call.args[1] = Str("sales")
    /\ IsStr(call.args[2])
    /\ call.out = Raise("ValueError")

\* C4: in query_database with an accepted alias and a string query, a driver
\* error (pyodbc.Error) at any step from connecting to committing ends in a
\* rollback and the returned string 'Database error!', never in an exception.
C4_DriverErrorIsStringified ==
    (IsQuery /\ ReachedDriver /\ Drv.fault # "none" /\ Drv.kind \in DriverErrors) =>
        /\ call.out = Return(Str("Database error!"))
        /\ Count(call.ev, "rollback") = 1

C6_MissingSecretRaises ==
    (/\ call.op = "get_secret_from_keyvault"
     /\ IsStr(call.args[1]) /\ IsStr(call.args[2])) =>
        LET kv == call.args[1].v
            name == call.args[2].v
            exists == kv = "kv" /\ name \in DOMAIN store /\ store[name] # NoSecret IN
        /\ ~exists => call.out.kind = "raise"
        /\ call.out.kind = "return" => (exists /\ call.out.val = Str(store[name]))

(***************************************************************************)
(* Claims about the data lake functions.                                   *)
(***************************************************************************)
HasMarker(name) == \E i \in DOMAIN name : name[i] = "_delta_log"

\* C10: list_directory_contents returns exactly the reported entries whose
\* path does not contain the segment '_delta_log', in the order reported.
C10_DeltaLogFiltered ==
    (call.op = "list_directory_contents" /\ call.out.kind = "return") =>
        call.out.val.v =
            SelectSeq(get_paths(call.args[1], lake).out.val.v,
                      LAMBDA e : ~HasMarker(e.name))

(***************************************************************************)
(* Claims about the filesystem and contract file helpers.                  *)
(***************************************************************************)
\* The helpers that take a path or a name, and where they take it.
NameArgPositions(op) ==
    CASE op = "get_secret_from_keyvault" -> {1, 2}
      [] op \in {"keyvault_connection_strings", "query_database", "list_folders",
                 "read_sql", "open_csv", "return_source_system_path", "delete_file",
                 "write_to_csv", "load_json"} -> {1}
      [] OTHER -> {}

\* C3: a helper that takes a path or a name and is given a value that is not
\* a string fails with a TypeError, and has made no external call (no
\* filesystem probe, no open, no network or database call) before it.
C3_NonStringIsTypeError ==
    (\E i \in NameArgPositions(call.op) : ~IsStr(call.args[i])) =>
        /\ call.out = Raise("TypeError")
        /\ call.ev = <<>>

Opens(ev) == {i \in DOMAIN ev : ev[i][1] = "open"}

\* C7: open_csv on an existing file fails with ValueError without opening it
\* when the file is empty, fails with ValueError when the stripped first row
\* is neither header sequence, and otherwise returns the remaining rows in
\* file order, every cell stripped, the header row excluded.
C7_OpenCsvContract ==
    (/\ call.op = "open_csv"
     /\ IsStr(call.args[1])
     /\ Entry(fs, call.args[1].v).kind = "file") =>
        LET text == Entry(fs, call.args[1].v).data
            rows == csv_reader(text)
            header == [i \in DOMAIN rows[1] |-> strip(rows[1][i])] IN
        IF text = <<>>
            THEN call.out = Raise("ValueError") /\ Opens(call.ev) = {}
        ELSE IF header # header_entity /\ header # header_source
            THEN call.out = Raise("ValueError")
        ELSE /\ call.out.kind = "return"
             /\ call.out.val.t = "list"
             /\ Len(call.out.val.v) = Len(rows) - 1
             /\ \A i \in 1..(Len(rows) - 1) :
                    /\ Len(call.out.val.v[i]) = Len(rows[i + 1])
                    /\ \A j \in DOMAIN rows[i + 1] :
                           call.out.val.v[i][j] = strip(rows[i + 1][j])

\* A file with a padded source-system header, a padded row, a blank line and
\* a quoted cell that spans two lines, read back stripped.
C7_Witness ==
    /\ call.op = "open_csv"
    /\ call.args[1] = Str("f.csv")
    /\ Entry(fs, "f.csv") = File(FilePadded)
    /\ call.out.kind = "return"
    /\ call.out.val.v = << RowPlain, <<>>, << <<"x", "\n", "y">>, <<"z">> >> >>

WroteRecognized ==
    /\ call.op = "write_to_csv"
    /\ call.out.kind = "return"
    /\ call.args[3].t = "list"
    /\ call.args[3].v \in {header_entity, header_source}

ReadsBack == call'.op = "open_csv" /\ call'.args[1] = call.args[1]

C9_DeleteFile ==
    [][(call'.op = "delete_file" /\ IsStr(call'.args[1])) =>
           LET p == call'.args[1].v IN
           /\ Entry(fs, p).kind # "file" => (call'.out.kind = "return" /\ fs' = fs)
           /\ Entry(fs, p).kind = "file" =>
                  /\ Entry(fs', p).kind = "absent"
                  /\ \A q \in (DOMAIN fs \cup DOMAIN fs') \ {p} : Entry(fs', q) = Entry(fs, q)
           /\ delete_file(call'.args[1], fs').out.kind = "return"
           /\ delete_file(call'.args[1], fs').fs = fs']_vars

C9_Witness ==
    /\ call.op = "delete_file"
    /\ call.args[1] = Str("f.csv")
    /\ \E i \in DOMAIN call.ev : call.ev[i] = <<"remove", "f.csv">>
    /\ Entry(fs, "f.csv").kind = "absent"
    /\ Entry(fs, "d/c.csv").kind = "file"
    /\ Entry(fs, "d").kind = "dir"

\* The names in a returned list.
Names(list) == {list[i] : i \in DOMAIN list}

\* The immediate entries of a path that are directories, by name.
ImmediateFolders(f, p) ==
    {basename(q) : q \in {q \in DOMAIN f : Parent(q) = p /\ f[q].kind = "dir"}}

\* C11: list_folders on a string path fails with FileNotFoundError when the
\* path does not exist or is not a directory; otherwise it returns exactly
\* the names of the immediate entries that are directories, each once, with
\* no file and no nested directory among them; either way the filesystem is
\* left as it was.
C11_ListFolders ==
    [][(call'.op = "list_folders" /\ IsStr(call'.args[1])) =>
           LET p == call'.args[1].v IN
           /\ fs' = fs
           /\ Entry(fs, p).kind # "dir" => call'.out = Raise("FileNotFoundError")
           /\ Entry(fs, p).kind = "dir" =>
                  /\ call'.out.kind = "return"
                  /\ call'.out.val.t = "list"
                  /\ Names(call'.out.val.v) = ImmediateFolders(fs, p)
                  /\ Len(call'.out.val.v) = Cardinality(ImmediateFolders(fs, p))
                  /\ \A n \in Names(call'.out.val.v) :
                         /\ Entry(fs, join(p, n)).kind = "dir"
                         /\ Parent(join(p, n)) = p]_vars

\* list_folders("d") where d holds the directories a and b, the file c.txt
\* and, inside a, the directory n: the result is a and b.
C11_Witness ==
    /\ call.op = "list_folders"
    /\ call.args[1] = Str("d")
    /\ Entry(fs, "d/a").kind = "dir"
    /\ Entry(fs, "d/b").kind = "dir"
    /\ Entry(fs, "d/c.txt").kind = "file"
    /\ Entry(fs, "d/a/n").kind = "dir"
    /\ call.out = Return(PyList(<<"a", "b">>))
====
